---- MODULE Spec2Model ----
(***************************************************************************)
(* Model of python/robot_output_to_artifacts.py: the conversion of a Robot *)
(* Framework result tree into the run-artifacts JSON file.                 *)
(*                                                                         *)
(* Text is modelled as a sequence of characters (one-character strings;    *)
(* a non-ASCII character is written as the name of its code point), so     *)
(* that sanitize_id and the f-string "step-<n>" are computed as the code   *)
(* computes them.  Python's None is the value None below; a dict is a      *)
(* function whose DOMAIN is its key set.                                   *)
(***************************************************************************)
EXTENDS Integers, Sequences, FiniteSets, TLC

VARIABLES
    pc,          \* position of the run inside main() / the driver of the pure function
    args,        \* argparse.Namespace: suite_id, video_path, manifest_path
    disk,        \* the files main() looks at: the two manifest locations, the video file
    result,      \* ExecutionResult: suite name and the keywords in traversal order
    pos,         \* number of keywords result.visit has already handed to end_keyword
    suite_name,  \* local of main()
    scenario_id, \* local of main()
    visitor,     \* TRUE once DocStepVisitor(output_dir) has been constructed
    steps,       \* DocStepVisitor.steps
    counter,     \* DocStepVisitor.counter
    artifacts,   \* local dict of main()
    backfilled,  \* TRUE once lines 129-130 have run
    dest,        \* --artifacts-json on disk: parent directory present, file content
    dest0,       \* dest as it was when the run started
    value,       \* argument of sanitize_id
    slug         \* value returned by sanitize_id

vars == <<pc, args, disk, result, pos, suite_name, scenario_id, visitor, steps,
          counter, artifacts, backfilled, dest, dest0, value, slug>>

----------------------------------------------------------------------------
(* Bounds *)

MaxLen == 3        \* longest enumerated argument of sanitize_id
MaxKeywords == 2   \* longest result tree of a whole run
MaxVisited == 3    \* longest result tree handed to the extractor alone

----------------------------------------------------------------------------
(* Text *)

None == <<"<None>">>

EmptyDict == [k \in {} |-> None]

BoundedSeq(S, n) == UNION {[1..k -> S] : k \in 0..n}

UpperCase == <<"A","B","C","D","E","F","G","H","I","J","K","L","M",
               "N","O","P","Q","R","S","T","U","V","W","X","Y","Z">>

LowerCase == <<"a","b","c","d","e","f","g","h","i","j","k","l","m",
               "n","o","p","q","r","s","t","u","v","w","x","y","z">>

Digits == <<"0","1","2","3","4","5","6","7","8","9">>

Whitespace == {" ", "\t", "\n"}

Range(s) == {s[i] : i \in DOMAIN s}

\* str.lower() on one character; U+00C9 is LATIN CAPITAL LETTER E WITH ACUTE
LowerChar(c) ==
    IF c \in Range(UpperCase)
    THEN LowerCase[CHOOSE i \in DOMAIN UpperCase : UpperCase[i] = c]
    ELSE IF c = "U+00C9" THEN "U+00E9" ELSE c

Lower(s) == [i \in DOMAIN s |-> LowerChar(s[i])]

RECURSIVE LStrip(_, _)
LStrip(s, chars) ==
    IF s # <<>> /\ Head(s) \in chars THEN LStrip(Tail(s), chars) ELSE s

RECURSIVE RStrip(_, _)
RStrip(s, chars) ==
    IF s # <<>> /\ s[Len(s)] \in chars
    THEN RStrip(SubSeq(s, 1, Len(s) - 1), chars)
    ELSE s

\* str.strip(): without an argument it strips whitespace, with one those characters
Strip(s, chars) == RStrip(LStrip(s, chars), chars)

\* the character class [a-zA-Z0-9] of line 31
IsAlnum(c) == c \in Range(LowerCase) \cup Range(UpperCase) \cup Range(Digits)

\* re.sub(r"[^a-zA-Z0-9]+", "-", s): every maximal run outside the class becomes one hyphen
RECURSIVE ReSub(_)
ReSub(s) ==
    IF s = <<>> THEN <<>>
    ELSE IF IsAlnum(Head(s)) THEN <<Head(s)>> \o ReSub(Tail(s))
    ELSE <<"-">> \o ReSub(LStrip(Tail(s), Range(s) \ {c \in Range(s) : IsAlnum(c)}))

RobotSuite == <<"r","o","b","o","t","-","s","u","i","t","e">>

sanitize_id_NoStrip(v) ==
    LET cleaned == ReSub(Lower(Strip(v, Whitespace)))
    IN  IF cleaned # <<>> THEN cleaned ELSE RobotSuite

sanitize_id(v) ==
    LET cleaned == ReSub(Lower(Strip(v, Whitespace)))
        stripped == Strip(cleaned, {"-"})
    IN  IF stripped # <<>> THEN stripped ELSE RobotSuite

\* str(n) for a non-negative int
RECURSIVE Str(_)
Str(n) == IF n < 10 THEN <<Digits[n + 1]>> ELSE Str(n \div 10) \o <<Digits[(n % 10) + 1]>>

----------------------------------------------------------------------------
(* Inputs of the sanitize_id driver *)

Alphabet == {"a", "Z", "7", "-", " ", "!", "U+00C9"}

MyTestSuite == <<"M","y"," ","T","e","s","t"," ","S","u","i","t","e","!","!">>

DefaultSuiteName == <<"R","o","b","o","t"," ","S","u","i","t","e">>

SanitizeInputs ==
    BoundedSeq(Alphabet, MaxLen) \cup {MyTestSuite, DefaultSuiteName, <<" ", " ", " ">>}

----------------------------------------------------------------------------
(* Timestamps *)

\* An optional int: <<>> is None, <<n>> is the int n
NoInt == <<>>

Int1(n) == <<n>>

(* The start-time text of a keyword.  form says which shape the text has:   *)
(* "None" (attribute is None), "empty" (""), "compact" (YYYYMMDD HH:MM:SS), *)
(* "dashed" (YYYY-MM-DD HH:MM:SS) or "other" (anything else); frac says     *)
(* whether ".ffffff" follows; sec and micro are the local time the text     *)
(* denotes, as seconds since the epoch and microseconds.                    *)
TimeText(form, frac, sec, micro) == [form |-> form, frac |-> frac, sec |-> sec, micro |-> micro]

TimeNone == TimeText("None", FALSE, 0, 0)

TimeEmpty == TimeText("empty", FALSE, 0, 0)

TimeGarbage == TimeText("other", FALSE, 0, 0)

\* the list of line 39, in its order
patterns ==
    << [form |-> "compact", frac |-> TRUE],
       [form |-> "compact", frac |-> FALSE],
       [form |-> "dashed",  frac |-> TRUE],
       [form |-> "dashed",  frac |-> FALSE] >>

\* datetime.strptime(value, pattern) raises ValueError unless the text has the pattern's shape
StrptimeOk(v, pattern) == v.form = pattern.form /\ v.frac = pattern.frac

\* int(datetime.timestamp() * 1000): whole milliseconds, the rest truncated
TimestampMs(v) == v.sec * 1000 + (v.micro \div 1000)

RECURSIVE TryPatterns(_, _)
TryPatterns(v, ps) ==
    IF ps = <<>> THEN NoInt
    ELSE IF StrptimeOk(v, Head(ps)) THEN Int1(TimestampMs(v))
    ELSE TryPatterns(v, Tail(ps))

parse_time_ms(v) ==
    IF v.form \in {"None", "empty"} THEN NoInt
    ELSE TryPatterns(v, patterns)

----------------------------------------------------------------------------
(* DocStepVisitor *)

DOC_KEYWORDS == {"Doc Web Step", "Doc Desktop Step"}

OutputDir == <<"o","u","t">>

Matches_AnyPassing(keyword) == keyword.status = "PASS"

\* line 62, negated: the keyword is not skipped
Matches(keyword) == ~(keyword.status # "PASS" \/ keyword.kwname \notin DOC_KEYWORDS)

Increment_Stuck(c) == c

\* line 65
Increment(c) == c + 1

StepId_BeforeIncrement(a, n) ==
    IF Len(a) > 0 /\ a[1] # <<>> THEN a[1] ELSE <<"s","t","e","p","-">> \o Str(n - 1)

\* line 68; n is self.counter after the increment
StepId(a, n) ==
    IF Len(a) > 0 /\ a[1] # <<>> THEN a[1] ELSE <<"s","t","e","p","-">> \o Str(n)

\* line 69
Title(a, step_id) == IF Len(a) > 1 /\ a[2] # <<>> THEN a[2] ELSE step_id

\* line 70
Description(a) == IF Len(a) > 2 THEN a[3] ELSE <<>>

\* line 72, as line 81 turns it into text
ImagePath(step_id) ==
    OutputDir \o <<"/">> \o <<"s","c","r","e","e","n","s","h","o","t","s">> \o <<"/">>
        \o step_id \o <<".","p","n","g">>

\* line 75: int(getattr(keyword, "elapsedtime", 0) or 0)
ElapsedMs(keyword) == IF keyword.elapsedtime = NoInt THEN 0 ELSE keyword.elapsedtime[1]

EndMs_Truthy(start_ms, elapsed_ms) ==
    IF start_ms # NoInt /\ start_ms[1] # 0 THEN Int1(start_ms[1] + elapsed_ms) ELSE NoInt

\* line 76
EndMs(start_ms, elapsed_ms) ==
    IF start_ms # NoInt THEN Int1(start_ms[1] + elapsed_ms) ELSE NoInt

\* lines 66-88: the dict appended for a matching keyword; n is self.counter
BuildStep(keyword, n) ==
    LET a == keyword.args
        step_id == StepId(a, n)
        title == Title(a, step_id)
        description == Description(a)
        start_ms == parse_time_ms(keyword.starttime)
        elapsed_ms == ElapsedMs(keyword)
        end_ms == EndMs(start_ms, elapsed_ms)
    IN  [id |-> step_id, title |-> title, imagePath |-> ImagePath(step_id)]
        @@ (IF description # <<>> THEN [description |-> description] ELSE EmptyDict)
        @@ (IF start_ms # NoInt THEN [startedAtMs |-> start_ms[1]] ELSE EmptyDict)
        @@ (IF end_ms # NoInt THEN [endedAtMs |-> end_ms[1]] ELSE EmptyDict)

Keyword(status, kwname, a, starttime, elapsedtime) ==
    [status |-> status, kwname |-> kwname, args |-> a,
     starttime |-> starttime, elapsedtime |-> elapsedtime]

IdA == <<"a">>

IdB == <<"b">>

IdStep2 == <<"s","t","e","p","-","2">>

TitleT == <<"T">>

DescD == <<"d">>

\* passing documentation steps without an id of their own
KwNoArgs == Keyword("PASS", "Doc Web Step", <<>>, TimeNone, NoInt)

KwEmptyId == Keyword("PASS", "Doc Desktop Step", << <<>> >>, TimeText("compact", FALSE, 0, 0), Int1(250))

KwNoArgsTimed == Keyword("PASS", "Doc Web Step", <<>>, TimeText("dashed", FALSE, 2, 0), Int1(250))

\* passing documentation steps with an id of their own
KwIdA == Keyword("PASS", "Doc Web Step", <<IdA>>, TimeText("dashed", TRUE, 1, 500000), Int1(0))

KwIdAFull == Keyword("PASS", "Doc Web Step", <<IdA, TitleT, DescD>>, TimeGarbage, Int1(250))

KwIdStep2 == Keyword("PASS", "Doc Desktop Step", <<IdStep2, <<>>, <<>> >>, TimeEmpty, NoInt)

KwIdB == Keyword("PASS", "Doc Web Step", <<IdB, TitleT>>, TimeText("compact", TRUE, 1, 1999), NoInt)

\* invocations the visitor skips
KwFailed == Keyword("FAIL", "Doc Web Step", <<IdB>>, TimeText("compact", FALSE, 1, 0), Int1(250))

KwSkipped == Keyword("SKIP", "Doc Desktop Step", <<>>, TimeNone, NoInt)

KwOther == Keyword("PASS", "Log", <<IdB>>, TimeText("compact", FALSE, 1, 0), Int1(0))

KwOtherFailed == Keyword("FAIL", "Log", <<>>, TimeNone, NoInt)

ExtractKeywords ==
    {KwNoArgs, KwEmptyId, KwNoArgsTimed, KwIdA, KwIdAFull, KwIdStep2, KwIdB,
     KwFailed, KwSkipped, KwOther, KwOtherFailed}

RunKeywords == {KwNoArgs, KwIdA, KwFailed}

\* DocStepVisitor.end_keyword, called by result.visit for the next keyword of the tree
EndKeyword ==
    /\ pc = "visit"
    /\ pos < Len(result.keywords)
    /\ LET keyword == result.keywords[pos + 1]
       IN  IF ~Matches(keyword)
           THEN UNCHANGED <<steps, counter>>
           ELSE /\ counter' = Increment(counter)
                /\ steps' = Append(steps, BuildStep(keyword, counter'))
    /\ pos' = pos + 1
    /\ UNCHANGED <<pc, args, disk, result, suite_name, scenario_id, visitor,
                   artifacts, backfilled, dest, dest0, value, slug>>

----------------------------------------------------------------------------
(* sanitize_id on its own *)

CallSanitize ==
    /\ pc = "sanitize"
    /\ slug' = sanitize_id(value)
    /\ pc' = "sanitized"
    /\ UNCHANGED <<args, disk, result, pos, suite_name, scenario_id, visitor, steps,
                   counter, artifacts, backfilled, dest, dest0, value>>

NoArgs == [suite_id |-> None, video_path |-> None, manifest_path |-> None]

NoManifest == [kind |-> "absent", json |-> EmptyDict]

NoDisk == [defaultManifest |-> NoManifest, customManifest |-> NoManifest, video |-> FALSE]

NoDest == [dir |-> FALSE, file |-> <<>>]

InitSanitize ==
    /\ pc = "sanitize"
    /\ value \in SanitizeInputs
    /\ slug = None
    /\ args = NoArgs
    /\ disk = NoDisk
    /\ result = [suite_name |-> None, keywords |-> <<>>]
    /\ pos = 0
    /\ suite_name = None
    /\ scenario_id = None
    /\ visitor = FALSE
    /\ steps = <<>>
    /\ counter = 0
    /\ artifacts = EmptyDict
    /\ backfilled = FALSE
    /\ dest = NoDest
    /\ dest0 = NoDest

NextSanitize == CallSanitize

SpecSanitize == InitSanitize /\ [][NextSanitize]_vars

----------------------------------------------------------------------------
(* The visitor on its own: DocStepVisitor(output_dir) driven over a tree *)

InitExtract ==
    /\ pc = "visit"
    /\ result \in {[suite_name |-> None, keywords |-> ks] :
                      ks \in BoundedSeq(ExtractKeywords, MaxVisited)}
    /\ pos = 0
    /\ visitor = TRUE
    /\ steps = <<>>
    /\ counter = 0
    /\ args = NoArgs
    /\ disk = NoDisk
    /\ suite_name = None
    /\ scenario_id = None
    /\ artifacts = EmptyDict
    /\ backfilled = FALSE
    /\ dest = NoDest
    /\ dest0 = NoDest
    /\ value = None
    /\ slug = None

NextExtract == EndKeyword

SpecExtract == InitExtract /\ [][NextExtract]_vars

----------------------------------------------------------------------------
(* main() *)

\* truth value of an optional text: None and "" are false
Truthy(t) == t # None /\ t # <<>>

\* dict.get(key), dict.get(key, default)
Get(d, k) == IF k \in DOMAIN d THEN d[k] ELSE None

GetOr(d, k, default) == IF k \in DOMAIN d THEN d[k] ELSE default

CustomManifestPath == <<"m",".","j","s","o","n">>

CliVideo == <<"c",".","m","p","4">>

ManifestVideo == <<"m",".","m","p","4">>

ManifestRaw == <<"r",".","m","p","4">>

GivenSuiteId == <<"S","-","1">>

MySuite == <<"M","y"," ","S","u","i","t","e">>

ManifestStep == [id |-> <<"m","1">>, title |-> <<"M">>, imagePath |-> <<"m","1",".","p","n","g">>]

manifest_path_DefaultOnly == "defaultManifest"

\* lines 99-103: which of the two manifest locations main() looks at
manifest_path ==
    IF Truthy(args.manifest_path) THEN "customManifest" ELSE "defaultManifest"

\* Path(p).exists() for the --video-path value; Path("") is the working directory
Exists(p) == IF p = <<>> THEN TRUE ELSE p = CliVideo /\ disk.video

ShouldBackfill_NoExistsCheck == Truthy(args.video_path) /\ ~Truthy(Get(artifacts, "videoPath"))

\* the condition of line 128
ShouldBackfill ==
    Truthy(args.video_path) /\ Exists(args.video_path) /\ ~Truthy(Get(artifacts, "videoPath"))

JsonNull == <<"<null>">>

\* json.dumps (line 134): a key whose value is None is written with the value null
JsonDumps(d) ==
    [k \in DOMAIN d |->
        IF k \in {"videoPath", "rawVideoPath"} /\ d[k] = None THEN JsonNull ELSE d[k]]

\* lines 105-107
LoadResult ==
    /\ pc = "start"
    /\ suite_name' = IF Truthy(result.suite_name) THEN result.suite_name ELSE DefaultSuiteName
    /\ scenario_id' = IF Truthy(args.suite_id) THEN args.suite_id ELSE sanitize_id(suite_name')
    /\ pc' = "branch"
    /\ UNCHANGED <<args, disk, result, pos, visitor, steps, counter, artifacts,
                   backfilled, dest, dest0, value, slug>>

ReadManifest_FallBack ==
    /\ pc = "branch"
    /\ disk[manifest_path].kind # "absent"
    /\ IF disk[manifest_path].kind = "object"
       THEN LET manifest == disk[manifest_path].json
            IN  /\ artifacts' = [scenarioId |-> scenario_id,
                                 title |-> suite_name,
                                 steps |-> GetOr(manifest, "steps", <<>>),
                                 videoPath |-> Get(manifest, "videoPath"),
                                 rawVideoPath |-> Get(manifest, "rawVideoPath")]
                /\ pc' = "backfill"
                /\ UNCHANGED visitor
       ELSE /\ visitor' = TRUE
            /\ pc' = "visit"
            /\ UNCHANGED artifacts
    /\ UNCHANGED <<args, disk, result, pos, suite_name, scenario_id, steps,
                   counter, backfilled, dest, dest0, value, slug>>

\* lines 109-117: the manifest exists; json.loads raises on malformed JSON (line 110)
\* and .get raises on a JSON document that is not an object (line 114)
ReadManifest ==
    /\ pc = "branch"
    /\ disk[manifest_path].kind # "absent"
    /\ IF disk[manifest_path].kind = "object"
       THEN LET manifest == disk[manifest_path].json
            IN  /\ artifacts' = [scenarioId |-> scenario_id,
                                 title |-> suite_name,
                                 steps |-> GetOr(manifest, "steps", <<>>),
                                 videoPath |-> Get(manifest, "videoPath"),
                                 rawVideoPath |-> Get(manifest, "rawVideoPath")]
                /\ pc' = "backfill"
       ELSE /\ pc' = "failed"
            /\ UNCHANGED artifacts
    /\ UNCHANGED <<args, disk, result, pos, suite_name, scenario_id, visitor, steps,
                   counter, backfilled, dest, dest0, value, slug>>

\* lines 118-119 and 56-59: no manifest, DocStepVisitor(output_dir) is constructed
CreateVisitor ==
    /\ pc = "branch"
    /\ disk[manifest_path].kind = "absent"
    /\ visitor' = TRUE
    /\ steps' = <<>>
    /\ counter' = 0
    /\ pc' = "visit"
    /\ UNCHANGED <<args, disk, result, pos, suite_name, scenario_id, artifacts,
                   backfilled, dest, dest0, value, slug>>

\* lines 122-126, once result.visit has returned
CollectSteps ==
    /\ pc = "visit"
    /\ pos = Len(result.keywords)
    /\ artifacts' = [scenarioId |-> scenario_id, title |-> suite_name, steps |-> steps]
    /\ pc' = "backfill"
    /\ UNCHANGED <<args, disk, result, pos, suite_name, scenario_id, visitor, steps,
                   counter, backfilled, dest, dest0, value, slug>>

\* lines 128-130
Backfill ==
    /\ pc = "backfill"
    /\ IF ShouldBackfill
       THEN /\ artifacts' = [videoPath |-> args.video_path,
                             rawVideoPath |-> args.video_path] @@ artifacts
            /\ backfilled' = TRUE
       ELSE UNCHANGED <<artifacts, backfilled>>
    /\ pc' = "write"
    /\ UNCHANGED <<args, disk, result, pos, suite_name, scenario_id, visitor, steps,
                   counter, dest, dest0, value, slug>>

\* lines 132-137
WriteArtifacts ==
    /\ pc = "write"
    /\ dest' = [dir |-> TRUE, file |-> <<JsonDumps(artifacts)>>]
    /\ pc' = "done"
    /\ UNCHANGED <<args, disk, result, pos, suite_name, scenario_id, visitor, steps,
                   counter, artifacts, backfilled, dest0, value, slug>>

----------------------------------------------------------------------------
(* Inputs of a whole run *)

ManifestObjects ==
    {[kind |-> "object", json |-> s @@ v @@ r] :
        s \in {EmptyDict, [steps |-> <<>>], [steps |-> <<ManifestStep>>]},
        v \in {EmptyDict, [videoPath |-> <<>>], [videoPath |-> ManifestVideo]},
        r \in {EmptyDict, [rawVideoPath |-> ManifestRaw]}}

ManifestFiles ==
    ManifestObjects \cup {NoManifest,
                          [kind |-> "malformed", json |-> EmptyDict],
                          [kind |-> "array", json |-> EmptyDict]}

OtherManifest == [kind |-> "object", json |-> [steps |-> <<>>, videoPath |-> ManifestVideo]]

OldArtifacts == [scenarioId |-> <<"o","l","d">>, title |-> <<"O","l","d">>, steps |-> <<>>]

Init ==
    /\ pc = "start"
    /\ args \in [suite_id : {None, GivenSuiteId},
                 video_path : {None, <<>>, CliVideo},
                 manifest_path : {None, CustomManifestPath}]
    /\ disk \in [defaultManifest : ManifestFiles,
                 customManifest : ManifestFiles,
                 video : BOOLEAN]
    \* the manifest location main() does not look at holds nothing or one fixed manifest
    /\ disk[IF manifest_path = "customManifest" THEN "defaultManifest" ELSE "customManifest"]
           \in {NoManifest, OtherManifest}
    /\ args.video_path # CliVideo => ~disk.video
    /\ result \in [suite_name : {None, MySuite},
                   keywords : BoundedSeq(RunKeywords, MaxKeywords)]
    /\ pos = 0
    /\ suite_name = None
    /\ scenario_id = None
    /\ visitor = FALSE
    /\ steps = <<>>
    /\ counter = 0
    /\ artifacts = EmptyDict
    /\ backfilled = FALSE
    /\ dest \in {NoDest, [dir |-> TRUE, file |-> <<OldArtifacts>>]}
    /\ dest0 = dest
    /\ value = None
    /\ slug = None

Next ==
    \/ LoadResult
    \/ ReadManifest
    \/ CreateVisitor
    \/ EndKeyword
    \/ CollectSteps
    \/ Backfill
    \/ WriteArtifacts

Spec == Init /\ [][Next]_vars

----------------------------------------------------------------------------
(* Properties of the visitor, stated against the tree it was given *)

IsPassingDoc(kw) == kw.status = "PASS" /\ kw.kwname \in {"Doc Web Step", "Doc Desktop Step"}

\* positions of the visited invocations that pass and carry a documentation-keyword name
MatchIdx == {i \in 1..pos : IsPassingDoc(result.keywords[i])}

\* the invocation the k-th recorded step has to come from
SourceOf(k) ==
    result.keywords[CHOOSE i \in MatchIdx : Cardinality({j \in MatchIdx : j <= i}) = k]

HasOwnId(kw) == Len(kw.args) > 0 /\ kw.args[1] # <<>>

\* the step carries what the invocation's positional arguments say
StepFrom(step, kw) ==
    /\ HasOwnId(kw) => step.id = kw.args[1]
    /\ IF Len(kw.args) > 1 /\ kw.args[2] # <<>>
       THEN step.title = kw.args[2]
       ELSE step.title = step.id
    /\ IF Len(kw.args) > 2 /\ kw.args[3] # <<>>
       THEN "description" \in DOMAIN step /\ step.description = kw.args[3]
       ELSE "description" \notin DOMAIN step

C1_OnePerMatch ==
    /\ Len(steps) = Cardinality(MatchIdx)
    /\ \A k \in 1..Len(steps) : StepFrom(steps[k], SourceOf(k))

C1_AppendOnly ==
    /\ Len(steps') >= Len(steps)
    /\ SubSeq(steps', 1, Len(steps)) = steps
    /\ Len(steps') <= Len(steps) + 1

\* C1: the steps list holds exactly one Step per visited invocation that passed and
\* has a documentation-keyword name, in visiting order; any other invocation adds
\* nothing, and a step once appended is never changed or removed.
C1_StepsFollowMatches == []C1_OnePerMatch /\ [][C1_AppendOnly]_vars

\* two steps recorded around a failed documentation step that left no trace
C1_Witness ==
    /\ pos >= 3
    /\ Len(steps) = 2
    /\ result.keywords[2] = KwFailed
    /\ steps[1].id = IdA
    /\ steps[2].id = IdB

StepLabels ==
    << <<"s","t","e","p","-","1">>, <<"s","t","e","p","-","2">>,
       <<"s","t","e","p","-","3">>, <<"s","t","e","p","-","4">>,
       <<"s","t","e","p","-","5">> >>

\* C6: the counter equals the number of matching invocations visited so far (zero
\* before the first), matches with an id of their own included and failed or
\* unmatched invocations excluded; the k-th match without an id gets step-<k>.
C6_CounterCountsMatches ==
    /\ counter = Cardinality(MatchIdx)
    /\ pos = 0 => counter = 0
    /\ \A k \in 1..Len(steps) :
          (~HasOwnId(SourceOf(k)) /\ k \in DOMAIN StepLabels) => steps[k].id = StepLabels[k]

\* two passing id-less matches with a failing invocation between them
C6_Witness ==
    /\ pos >= 3
    /\ ~HasOwnId(result.keywords[1]) /\ IsPassingDoc(result.keywords[1])
    /\ result.keywords[2].status = "FAIL"
    /\ ~HasOwnId(result.keywords[3]) /\ IsPassingDoc(result.keywords[3])
    /\ counter = 2
    /\ steps[1].id = StepLabels[1]
    /\ steps[2].id = StepLabels[2]

\* C5 as stated: no two steps of a run have the same id
C5_IdsUnique ==
    \A i, j \in 1..Len(steps) : i # j => steps[i].id # steps[j].id

\* C5, amended: two steps with the same id (or imagePath) are never both steps whose
\* id was synthesized, and a step whose invocation supplied an id carries it unchanged.
C5_SynthesizedIdsUnique ==
    /\ \A i, j \in 1..Len(steps) :
          (i # j /\ ~HasOwnId(SourceOf(i)) /\ ~HasOwnId(SourceOf(j)))
              => /\ steps[i].id # steps[j].id
                 /\ steps[i].imagePath # steps[j].imagePath
    /\ \A k \in 1..Len(steps) : HasOwnId(SourceOf(k)) => steps[k].id = SourceOf(k).args[1]

\* two synthesized ids next to a supplied id that repeats one of them
C5_Witness ==
    /\ Len(steps) >= 3
    /\ HasOwnId(SourceOf(1))
    /\ ~HasOwnId(SourceOf(2))
    /\ ~HasOwnId(SourceOf(3))
    /\ steps[1].id = steps[2].id
    /\ steps[2].id # steps[3].id

StartParsed(kw) == kw.starttime.form \in {"compact", "dashed"}

\* C9: a step has startedAtMs and endedAtMs both or neither; both exactly when the
\* start-time text parsed, and then endedAtMs = startedAtMs + elapsed (0 when the
\* elapsed time is missing); a match whose start time did not parse is still recorded.
C9_TimesBothOrNeither ==
    /\ Len(steps) = Cardinality(MatchIdx)
    /\ \A k \in 1..Len(steps) :
          LET step == steps[k]
              kw == SourceOf(k)
          IN  /\ "startedAtMs" \in DOMAIN step <=> StartParsed(kw)
              /\ "endedAtMs" \in DOMAIN step <=> StartParsed(kw)
              /\ StartParsed(kw) =>
                    step.endedAtMs = step.startedAtMs
                        + (IF kw.elapsedtime = <<>> THEN 0 ELSE kw.elapsedtime[1])

\* a step timed from the epoch itself, one with a missing elapsed time, one untimed
C9_Witness ==
    /\ Len(steps) >= 3
    /\ "startedAtMs" \in DOMAIN steps[1] /\ steps[1].startedAtMs = 0 /\ steps[1].endedAtMs = 250
    /\ "startedAtMs" \in DOMAIN steps[2] /\ SourceOf(2).elapsedtime = <<>>
    /\ steps[2].endedAtMs = 1001
    /\ SourceOf(3).starttime.form = "other" /\ "endedAtMs" \notin DOMAIN steps[3]

----------------------------------------------------------------------------
(* Properties of sanitize_id *)

SlugChars == Range(LowerCase) \cup Range(Digits) \cup {"-"}

WellFormedSlug(s) ==
    /\ s # <<>>
    /\ \A i \in DOMAIN s : s[i] \in SlugChars
    /\ s[1] # "-"
    /\ s[Len(s)] # "-"
    /\ \A i \in 1..(Len(s) - 1) : ~(s[i] = "-" /\ s[i + 1] = "-")

\* the cleaned result is empty exactly when the input has no ASCII letter or digit
HasAsciiAlnum(s) == \E i \in DOMAIN s : s[i] \in Range(LowerCase) \cup Range(UpperCase) \cup Range(Digits)

IsAsciiAlnum(c) == c \in Range(LowerCase) \cup Range(UpperCase) \cup Range(Digits)

----------------------------------------------------------------------------
(* Properties of a whole run *)

\* the manifest file at --manifest-path, else at <output-dir>/unity-manifest.json
ResolvedManifest ==
    IF args.manifest_path \notin {None, <<>>} THEN disk.customManifest ELSE disk.defaultManifest

Written == dest.file[1]

VideoKeys == {"videoPath", "rawVideoPath"}

\* C2: with a manifest that parses, the written steps are the manifest's steps field
\* (empty list if absent) and no visitor is ever constructed; without a manifest the
\* written steps are the visitor's.
C2_StepsFromOneSource ==
    /\ ResolvedManifest.kind \in {"object", "array"} => ~visitor /\ steps = <<>>
    /\ (pc = "done" /\ ResolvedManifest.kind = "object") =>
          Written.steps = (IF "steps" \in DOMAIN ResolvedManifest.json
                           THEN ResolvedManifest.json.steps
                           ELSE <<>>)
    /\ (pc = "done" /\ ResolvedManifest.kind = "absent") => visitor /\ Written.steps = steps

\* a run whose manifest was named by --manifest-path, over a tree with passing
\* documentation steps
C2_Witness ==
    /\ pc = "done"
    /\ args.manifest_path # None
    /\ ResolvedManifest.kind = "object"
    /\ disk.defaultManifest.kind = "absent"
    /\ Len(result.keywords) >= 2
    /\ \A i \in DOMAIN result.keywords : IsPassingDoc(result.keywords[i])
    /\ Written.steps = <<ManifestStep>>

\* C3: what the manifest provides as videoPath or rawVideoPath is written unchanged
C3_ManifestVideoKept ==
    (pc = "done" /\ ResolvedManifest.kind = "object") =>
        \A key \in VideoKeys :
            key \in DOMAIN ResolvedManifest.json =>
                key \in DOMAIN Written /\ Written[key] = ResolvedManifest.json[key]

\* C4: without a manifest the run never fails; with an existing --video-path file the
\* written videoPath and rawVideoPath are that path, otherwise neither key is written.
C4_BackfillWithoutManifest ==
    /\ ResolvedManifest.kind = "absent" => pc # "failed"
    /\ (pc = "done" /\ ResolvedManifest.kind = "absent") =>
          IF args.video_path = CliVideo /\ disk.video
          THEN /\ VideoKeys \subseteq DOMAIN Written
               /\ Written.videoPath = args.video_path
               /\ Written.rawVideoPath = args.video_path
          ELSE DOMAIN Written \cap VideoKeys = {}

\* --video-path names a file that is not on disk, and the run still completed
C4_Witness ==
    /\ pc = "done"
    /\ ResolvedManifest.kind = "absent"
    /\ args.video_path = CliVideo
    /\ ~disk.video
    /\ DOMAIN Written = {"scenarioId", "title", "steps"}
    /\ Len(Written.steps) >= 1

\* C7: in the manifest branch without backfill the written videoPath and rawVideoPath
\* are the manifest's, and a key the manifest lacks is not written
C7_AbsentStaysAbsent ==
    (pc = "done" /\ ResolvedManifest.kind = "object" /\ ~backfilled) =>
        \A key \in VideoKeys :
            IF key \in DOMAIN ResolvedManifest.json
            THEN key \in DOMAIN Written /\ Written[key] = ResolvedManifest.json[key]
            ELSE key \notin DOMAIN Written

\* C10: with a malformed manifest the run stops at the parse: it never reaches the
\* visitor, the backfill or the write, and the destination stays as it was.
C10_MalformedManifestFails ==
    ResolvedManifest.kind = "malformed" =>
        /\ pc \in {"start", "branch", "failed"}
        /\ ~visitor
        /\ pos = 0
        /\ steps = <<>>
        /\ dest = dest0

\* the failed run, over a tree the visitor would have found steps in, next to an
\* older artifacts file
C10_Witness ==
    /\ pc = "failed"
    /\ ResolvedManifest.kind = "malformed"
    /\ \E i \in DOMAIN result.keywords : IsPassingDoc(result.keywords[i])
    /\ dest.file = <<OldArtifacts>>

====
